---- MODULE Spec2Model ----
(***************************************************************************)
(* Model of scripts/niphaseogram.py: a batch script that folds a list of   *)
(* photon events into a time-vs-phase matrix (the phaseogram) and a summed *)
(* pulse profile.  The script is one sequential pass; pc is its position.  *)
(*                                                                         *)
(* Numbers.  The script computes the segment boundaries and the bin index  *)
(* in binary floating point (numpy.float_).  The model keeps that          *)
(* arithmetic, with a mantissa of MantBits bits instead of 53: a number is *)
(* an integer count of grid units, and Fl rounds an exact rational to the  *)
(* nearest number with at most MantBits significant bits, ties to even.    *)
(* Times are grid units of MJD; a phase ph stands for ph / PhaseOne.       *)
(* Counts and weights are small integers, on which float arithmetic is     *)
(* exact.  sqrt and log are kept symbolic (exact real arithmetic).         *)
(*                                                                         *)
(* The FITS reader, the TT->UTC conversion and the plotting library are    *)
(* outside the script: event times and the header window are taken as      *)
(* already converted MJD values, and the figure is recorded by the         *)
(* arguments the script hands to the plotting calls.  options.radio is     *)
(* None throughout (no overlay).                                           *)
(***************************************************************************)
EXTENDS Integers, Sequences, FiniteSets, TLC

VARIABLES
    options,    \* parsed command line: ntoa, nbins, emin, emax, tmin, scale, weights, outfile
    evdat,      \* the event table: TIME (as MJD), PULSE_PHASE, PI, WEIGHT per event
    evhdr,      \* header window as MJD(UTC): start, stop
    env,        \* the libraries of the build: strictMask, npFloat
    pc,         \* position of the script
    mjds,       \* event times after the energy filter
    phases,     \* event phases after the energy filter
    weights,    \* the weight column as loaded
    MJDSTART,   \* window start used for the segments and the image extent
    MJDSTOP,    \* window stop
    mjdstarts,  \* segment starts
    mjdstops,   \* segment stops
    k,          \* number of segments the loop has visited
    profile,    \* per-segment profile
    fullprof,   \* running full profile
    err,        \* running sum of weight^2 per bin
    a,          \* flat list of the processed segments' profiles; after scaling, the scaled array
    c,          \* display matrix
    extent,     \* imshow extent
    aspect,     \* imshow aspect
    py,         \* doubled full profile
    pe,         \* error bars
    logErrors,  \* number of log.error lines printed
    exc,        \* uncaught exception that ended the run, or "none"
    exitStatus, \* process exit status, -1 while running
    figure      \* "none", "saved" or "shown"

vars == <<options, evdat, evhdr, env, pc, mjds, phases, weights, MJDSTART, MJDSTOP,
          mjdstarts, mjdstops, k, profile, fullprof, err, a, c, extent, aspect,
          py, pe, logErrors, exc, exitStatus, figure>>

----------------------------------------------------------------------------
(* Bounds of the model *)

MantBits == 3
MaxNtoa == 3
MaxBins == 3
MaxEvents == 2

----------------------------------------------------------------------------
(* Floating point with a MantBits-bit mantissa *)

RECURSIVE FlExp(_, _, _)
FlExp(n, d, j) == IF n < d * 2^(MantBits + j) THEN j ELSE FlExp(n, d, j + 1)

FlPos(n, d) ==
    LET j   == FlExp(n, d, 0)
        den == d * 2^j
        q   == n \div den
        r   == n % den
        m   == IF 2 * r > den \/ (2 * r = den /\ q % 2 = 1) THEN q + 1 ELSE q
    IN  m * 2^j

Fl(n, d) == IF n < 0 THEN -FlPos(-n, d) ELSE FlPos(n, d)

FAdd(x, y) == Fl(x + y, 1)
FSub(x, y) == Fl(x - y, 1)
FMul(x, i) == Fl(x * i, 1)
FDiv(x, n) == IF n < 0 THEN Fl(-x, -n) ELSE Fl(x, n)

PhaseOne == 2^MantBits

----------------------------------------------------------------------------
(* numpy helpers *)

Zeros(n) == [i \in 1..n |-> 0]

RECURSIVE WhereUpTo(_, _)
WhereUpTo(mask, n) ==
    IF n = 0 THEN <<>>
    ELSE IF mask[n] THEN Append(WhereUpTo(mask, n - 1), n)
    ELSE WhereUpTo(mask, n - 1)

\* numpy.where(mask): the indices at which mask is true, ascending
Where(mask) == WhereUpTo(mask, Len(mask))

\* arr[idx] for an index list idx
Take(arr, idx) == [i \in 1..Len(idx) |-> arr[idx[i]]]

\* arr[mask] for a boolean mask no longer than arr
MaskSelect(arr, mask) == Take(arr, Where(mask))

RECURSIVE AddAll(_, _, _)
\* arr[bin] += inc for each pair of zip(bins, incs), in order
AddAll(arr, bins, incs) ==
    IF bins = <<>> \/ incs = <<>> THEN arr
    ELSE AddAll([arr EXCEPT ![Head(bins) + 1] = @ + Head(incs)], Tail(bins), Tail(incs))

RECURSIVE SumSeq(_)
SumSeq(s) == IF s = <<>> THEN 0 ELSE Head(s) + SumSeq(Tail(s))

\* numpy.sqrt and numpy.log of one element, kept exact
Sqrt(x) == [fn |-> "sqrt", arg |-> x]
Log(x) == [fn |-> "log", arg |-> x]

----------------------------------------------------------------------------
(* The script's computations *)

\* nicer.values.PI_TO_KEV: energies are counted in units of one PI channel
PI_TO_KEV == 1

En(pi) == pi * PI_TO_KEV

\* the mask of the energy filter, both ends inclusive
EnergyMask(ev, emin, emax) ==
    [i \in 1..Len(ev) |-> En(ev[i].PI) >= emin /\ En(ev[i].PI) <= emax]

\* the override forgotten: MJDSTART stays the header's start
WindowStartFromHeader(hdrStart, tmin) == hdrStart

\* MJDSTART after the --tmin override
WindowStart(hdrStart, tmin) == IF tmin # 0 THEN tmin ELSE hdrStart

Toadur(start, stop, ntoa) == FDiv(FSub(stop, start), ntoa)

\* the arange started at one instead of zero
SegStartsFromOne(start, toadur, ntoa) ==
    [i \in 1..(IF ntoa > 0 THEN ntoa ELSE 0) |-> FAdd(start, FMul(toadur, i))]

\* numpy.arange(ntoa) is empty for ntoa <= 0
SegStarts(start, toadur, ntoa) ==
    [i \in 1..(IF ntoa > 0 THEN ntoa ELSE 0) |-> FAdd(start, FMul(toadur, i - 1))]

SegStops(starts, toadur) == [i \in 1..Len(starts) |-> FAdd(starts[i], toadur)]

\* the clearing forgotten: the profile carries over to the next segment
ClearProfileKeep(p) == p

\* profile = profile*0.0
ClearProfile(p) == [i \in 1..Len(p) |-> p[i] * 0]

\* idx = (mjds>tstart)&(mjds<tstop)
TimeMask(ts, tstart, tstop) == [i \in 1..Len(ts) |-> ts[i] > tstart /\ ts[i] < tstop]

\* bin = int(ph*options.nbins), for ph >= 0
BinOf(ph, nbins) == FMul(ph, nbins) \div PhaseOne

Bins(phs, nbins) == [i \in 1..Len(phs) |-> BinOf(phs[i], nbins)]

Ones(n) == [i \in 1..n |-> 1]
Squares(ws) == [i \in 1..Len(ws) |-> ws[i] * ws[i]]

ValidScales == {"linear", "log", "sqrt", "squared"}

ScaleElem(x, scale) ==
    CASE scale = "linear"  -> x
      [] scale = "log"     -> Log(x)
      [] scale = "sqrt"    -> Sqrt(x)
      [] scale = "squared" -> x * x

\* a.reshape(ntoa, nbins): the number of rows, or -1 when numpy raises ValueError
ReshapeRows(len, ntoa, nbins) ==
    IF ntoa >= 0
    THEN (IF ntoa * nbins = len THEN ntoa ELSE -1)
    ELSE (IF len % nbins = 0 THEN len \div nbins ELSE -1)

Reshape(arr, rows, nbins) ==
    [r \in 1..rows |-> [j \in 1..nbins |-> arr[(r - 1) * nbins + j]]]

\* numpy.hstack([b, b])
HStack(b1, b2) == [r \in 1..Len(b1) |-> b1[r] \o b2[r]]

----------------------------------------------------------------------------
(* Inputs of a run *)

SeqsUpTo(S, n) == UNION {[1..m -> S] : m \in 0..n}

TimeVals == {64, 80, 96, 112}
PhaseVals == {0, PhaseOne \div 3, PhaseOne \div 2 + 1, PhaseOne - 1}
TminVals == {0, 80, 160}
HdrWindows == {<<64, 112>>, <<64, 64>>, <<48, 112>>, <<64, 128>>}
EnergyWindows == {<<1, 3>>, <<2, 3>>, <<2, 2>>}
Scales == ValidScales \cup {"bogus"}
WeightVals == 1..2
PiVals == 1..3
FewSegments == 1..2
FewBins == 1..2

OptionsOf(N, B, E, T, S, W, O) ==
    {[ntoa |-> n, nbins |-> b, emin |-> e[1], emax |-> e[2], tmin |-> t,
      scale |-> s, weights |-> w, outfile |-> o] :
        n \in N, b \in B, e \in E, t \in T, s \in S, w \in W, o \in O}

\* runs that vary the events' times and phases, unweighted
InputsAcc ==
    [options : OptionsOf(1..MaxNtoa, 1..MaxBins, {<<1, 3>>}, {0}, {"linear"}, {FALSE}, {FALSE}),
     evdat   : SeqsUpTo([TIME : TimeVals, PULSE_PHASE : PhaseVals, PI : {2}, WEIGHT : {1}],
                        MaxEvents),
     evhdr   : {[start |-> 64, stop |-> 112]},
     env     : {[strictMask |-> TRUE, npFloat |-> FALSE]}]

\* runs that vary the window, --ntoa, --tmin, --scale and the output
InputsSeg ==
    [options : OptionsOf(-1..MaxNtoa, 1..MaxBins, {<<1, 3>>}, TminVals, Scales, {FALSE}, BOOLEAN),
     evdat   : SeqsUpTo([TIME : {80}, PULSE_PHASE : {0}, PI : {2}, WEIGHT : {1}], 1),
     evhdr   : {[start |-> w[1], stop |-> w[2]] : w \in HdrWindows},
     env     : [strictMask : {TRUE}, npFloat : BOOLEAN]]

\* runs that vary the energies, the energy window and the weights
InputsW ==
    [options : OptionsOf(FewSegments, FewBins, EnergyWindows, {0}, {"linear"}, BOOLEAN, {FALSE}),
     evdat   : SeqsUpTo([TIME : {80}, PULSE_PHASE : {0, PhaseOne - 1}, PI : PiVals,
                         WEIGHT : WeightVals], MaxEvents),
     evhdr   : {[start |-> 64, stop |-> 112]},
     env     : [strictMask : BOOLEAN, npFloat : {FALSE}]]

Inputs == InputsAcc \cup InputsSeg \cup InputsW

Column(ev, f) == [i \in 1..Len(ev) |-> ev[i][f]]

----------------------------------------------------------------------------
(* The run *)

Init ==
    /\ \E in \in Inputs :
          /\ options = in.options
          /\ evdat = in.evdat
          /\ evhdr = in.evhdr
          /\ env = in.env
    /\ pc = "filter"
    /\ mjds = <<>> /\ phases = <<>> /\ weights = <<>>
    /\ MJDSTART = 0 /\ MJDSTOP = 0
    /\ mjdstarts = <<>> /\ mjdstops = <<>> /\ k = 0
    /\ profile = <<>> /\ fullprof = <<>> /\ err = <<>>
    /\ a = <<>> /\ c = <<>>
    /\ extent = <<>> /\ aspect = <<>>
    /\ py = <<>> /\ pe = <<>>
    /\ logErrors = 0 /\ exc = "none" /\ exitStatus = -1 /\ figure = "none"

\* an uncaught exception ends the interpreter with status 1
Raise(e) == pc' = "failed" /\ exc' = e /\ exitStatus' = 1

\* lines 74-87: load the columns, filter times and phases on energy
FilterOnEnergy ==
    /\ pc = "filter"
    /\ LET idx == Where(EnergyMask(evdat, options.emin, options.emax))
       IN  /\ mjds' = Take(Column(evdat, "TIME"), idx)
           /\ phases' = Take(Column(evdat, "PULSE_PHASE"), idx)
    /\ weights' = IF options.weights THEN Column(evdat, "WEIGHT") ELSE <<>>
    /\ pc' = "window"
    /\ UNCHANGED <<options, evdat, evhdr, env, MJDSTART, MJDSTOP, mjdstarts, mjdstops, k,
                   profile, fullprof, err, a, c, extent, aspect, py, pe, logErrors, exc,
                   exitStatus, figure>>

\* lines 89-99: the window from the header, MJDSTART overridden by --tmin
ComputeWindow ==
    /\ pc = "window"
    /\ MJDSTART' = WindowStart(evhdr.start, options.tmin)
    /\ MJDSTOP' = evhdr.stop
    /\ pc' = "segment"
    /\ UNCHANGED <<options, evdat, evhdr, env, mjds, phases, weights, mjdstarts, mjdstops, k,
                   profile, fullprof, err, a, c, extent, aspect, py, pe, logErrors, exc,
                   exitStatus, figure>>

\* lines 101-114: segment boundaries and the zeroed arrays.  Divided by zero, a
\* Python float raises and a numpy.float64 gives inf or nan, which then only
\* multiplies the empty arange.
MakeSegments ==
    /\ pc = "segment"
    /\ IF options.ntoa = 0 /\ ~env.npFloat
       THEN /\ Raise("ZeroDivisionError")
            /\ UNCHANGED <<mjdstarts, mjdstops, k, profile, fullprof, err, a>>
       ELSE /\ LET toadur == IF options.ntoa = 0 THEN 0
                             ELSE Toadur(MJDSTART, MJDSTOP, options.ntoa)
                   starts == SegStarts(MJDSTART, toadur, options.ntoa)
               IN  /\ mjdstarts' = starts
                   /\ mjdstops' = SegStops(starts, toadur)
            /\ profile' = Zeros(options.nbins)
            /\ fullprof' = Zeros(options.nbins)
            /\ err' = Zeros(options.nbins)
            /\ a' = <<>>
            /\ k' = 0
            /\ pc' = "loop"
            /\ UNCHANGED <<exc, exitStatus>>
    /\ UNCHANGED <<options, evdat, evhdr, env, mjds, phases, weights, MJDSTART, MJDSTOP, c,
                   extent, aspect, py, pe, logErrors, figure>>

\* the number of leading bins that index the profile arrays
RECURSIVE InRangePrefix(_, _)
InRangePrefix(bins, nbins) ==
    IF bins = <<>> \/ Head(bins) \notin 0..(nbins - 1) THEN 0
    ELSE 1 + InRangePrefix(Tail(bins), nbins)

\* lines 115-138: one iteration of the segment loop
LoopBody ==
    /\ pc = "loop"
    /\ k < Len(mjdstarts)
    /\ LET tstart == mjdstarts[k + 1]
           tstop  == mjdstops[k + 1]
       IN  IF options.tmin # 0 /\ tstart < options.tmin
           THEN /\ k' = k + 1
                /\ UNCHANGED <<profile, fullprof, err, a, pc, exc, exitStatus>>
           ELSE LET idx     == TimeMask(mjds, tstart, tstop)
                    cleared == ClearProfile(profile)
                    bins    == Bins(MaskSelect(phases, idx), options.nbins)
                    n       == InRangePrefix(bins, options.nbins)
                    good    == SubSeq(bins, 1, n)
                IN  IF options.weights /\ env.strictMask /\ Len(idx) # Len(weights)
                    THEN \* weights[idx]: the mask is shorter than the array
                         /\ Raise("IndexError")
                         /\ profile' = cleared
                         /\ UNCHANGED <<k, fullprof, err, a>>
                    ELSE LET ww == IF options.weights THEN MaskSelect(weights, idx)
                                   ELSE Ones(Len(bins))
                         IN  /\ profile' = AddAll(cleared, good, ww)
                             /\ fullprof' = AddAll(fullprof, good, ww)
                             /\ err' = IF options.weights
                                       THEN AddAll(err, good, Squares(ww)) ELSE err
                             /\ IF n < Len(bins)
                                THEN /\ Raise("IndexError")
                                     /\ UNCHANGED <<k, a>>
                                ELSE /\ a' = a \o profile'
                                     /\ k' = k + 1
                                     /\ UNCHANGED <<pc, exc, exitStatus>>
    /\ UNCHANGED <<options, evdat, evhdr, env, mjds, phases, weights, MJDSTART, MJDSTOP,
                   mjdstarts, mjdstops, c, extent, aspect, py, pe, logErrors, figure>>

\* sys.exit() without an argument
SysExitStatus == 0

\* lines 140-153: after the loop, the z-axis scaling or the exit on an unknown scale
ApplyScale ==
    /\ pc = "loop"
    /\ k = Len(mjdstarts)
    /\ IF options.scale \in ValidScales
       THEN /\ a' = [i \in 1..Len(a) |-> ScaleElem(a[i], options.scale)]
            /\ pc' = "reshape"
            /\ UNCHANGED <<logErrors, exitStatus>>
       ELSE /\ logErrors' = logErrors + 2
            /\ exitStatus' = SysExitStatus
            /\ pc' = "exited"
            /\ UNCHANGED a
    /\ UNCHANGED <<options, evdat, evhdr, env, mjds, phases, weights, MJDSTART, MJDSTOP,
                   mjdstarts, mjdstops, k, profile, fullprof, err, c, extent, aspect, py, pe,
                   exc, figure>>

\* lines 154-156: reshape to (ntoa, nbins) and duplicate the phase axis
ReshapeStack ==
    /\ pc = "reshape"
    /\ LET rows == ReshapeRows(Len(a), options.ntoa, options.nbins)
       IN  IF rows = -1
           THEN /\ Raise("ValueError")
                /\ UNCHANGED c
           ELSE /\ LET b == Reshape(a, rows, options.nbins) IN c' = HStack(b, b)
                /\ pc' = "imshow"
                /\ UNCHANGED <<exc, exitStatus>>
    /\ UNCHANGED <<options, evdat, evhdr, env, mjds, phases, weights, MJDSTART, MJDSTOP,
                   mjdstarts, mjdstops, k, profile, fullprof, err, a, extent, aspect, py, pe,
                   logErrors, figure>>

\* lines 158-165: the image with its extent and aspect 2.0/(MJDSTOP-MJDSTART),
\* kept as <<numerator, denominator>>.  Divided by zero, a Python float raises
\* and a numpy.float64 gives inf.
Imshow ==
    /\ pc = "imshow"
    /\ IF MJDSTOP = MJDSTART /\ ~env.npFloat
       THEN /\ Raise("ZeroDivisionError")
            /\ UNCHANGED <<extent, aspect>>
       ELSE /\ extent' = <<0, 2, MJDSTART, MJDSTOP>>
            /\ aspect' = <<2, FSub(MJDSTOP, MJDSTART)>>
            /\ pc' = "summary"
            /\ UNCHANGED <<exc, exitStatus>>
    /\ UNCHANGED <<options, evdat, evhdr, env, mjds, phases, weights, MJDSTART, MJDSTOP,
                   mjdstarts, mjdstops, k, profile, fullprof, err, a, c, py, pe, logErrors,
                   figure>>

SqrtAll(xs) == [i \in 1..Len(xs) |-> Sqrt(xs[i])]

\* lines 171-186: the doubled full profile and its error bars
FoldedProfile ==
    /\ pc = "summary"
    /\ py' = fullprof \o fullprof
    /\ pe' = IF options.weights THEN SqrtAll(err \o err) ELSE SqrtAll(py')
    /\ pc' = "output"
    /\ UNCHANGED <<options, evdat, evhdr, env, mjds, phases, weights, MJDSTART, MJDSTOP,
                   mjdstarts, mjdstops, k, profile, fullprof, err, a, c, extent, aspect,
                   logErrors, exc, exitStatus, figure>>

\* lines 201-204: save or show the figure; the script ends
Output ==
    /\ pc = "output"
    /\ figure' = IF options.outfile THEN "saved" ELSE "shown"
    /\ exitStatus' = 0
    /\ pc' = "done"
    /\ UNCHANGED <<options, evdat, evhdr, env, mjds, phases, weights, MJDSTART, MJDSTOP,
                   mjdstarts, mjdstops, k, profile, fullprof, err, a, c, extent, aspect, py,
                   pe, logErrors, exc>>

Next ==
    \/ FilterOnEnergy
    \/ ComputeWindow
    \/ MakeSegments
    \/ LoopBody
    \/ ApplyScale
    \/ ReshapeStack
    \/ Imshow
    \/ FoldedProfile
    \/ Output

Spec == Init /\ [][Next]_vars

----------------------------------------------------------------------------
(* Vocabulary of the properties *)

RECURSIVE SumTo(_, _)
\* F(1) + ... + F(n)
SumTo(F(_), n) == IF n = 0 THEN 0 ELSE F(n) + SumTo(F, n - 1)

AfterSegments == {"loop", "reshape", "imshow", "summary", "output", "done", "exited"}
AfterReshape == {"imshow", "summary", "output", "done"}
AfterImshow == {"summary", "output", "done"}

\* segment i is passed over by the --tmin test of the loop
Skipped(i) == options.tmin # 0 /\ mjdstarts[i] < options.tmin

\* the segments among the first n that the loop processes
Processed(n) == {i \in 1..n : ~Skipped(i)}

\* the row of a that holds the profile of the processed segment i
RowOf(i) == Cardinality(Processed(i))

Row(r) == SubSeq(a, (r - 1) * options.nbins + 1, r * options.nbins)

\* the filtered events whose time lies in [tstart, tstop)
HalfOpen(i) == {j \in 1..Len(mjds) : mjdstarts[i] <= mjds[j] /\ mjds[j] < mjdstops[i]}

\* the filtered events the loop selects for segment i
Selected(i) == {j \in 1..Len(mjds) : TimeMask(mjds, mjdstarts[i], mjdstops[i])[j]}

\* C1: unweighted, after each iteration every processed segment's B bin values
\* sum to the number of events with tstart <= t < tstop, each event falling in
\* one bin of [0, B).
C1_HalfOpenCount ==
    (~options.weights /\ pc \in {"loop", "failed"} /\ options.ntoa >= 1) =>
        /\ exc # "IndexError"
        /\ pc = "loop" =>
              \A i \in Processed(k) : SumSeq(Row(RowOf(i))) = Cardinality(HalfOpen(i))

\* C6: unweighted, after any number of iterations each full-profile bin is the
\* sum of that bin over the rows of the processed segments, the totals agree,
\* and skipped segments add no row.
C6_FullProfileIsSumOfRows ==
    (~options.weights /\ pc = "loop") =>
        /\ Len(a) = options.nbins * Cardinality(Processed(k))
        /\ \A b \in 1..options.nbins :
              fullprof[b] = SumTo(LAMBDA r : Row(r)[b], Cardinality(Processed(k)))
        /\ SumSeq(fullprof) = SumSeq(a)

C6_Witness ==
    /\ ~options.weights /\ pc = "loop" /\ k >= 2
    /\ Cardinality(Processed(k)) >= 2
    /\ SumSeq(Row(1)) >= 1 /\ SumSeq(Row(2)) >= 1

\* the window and the segments the header alone would give
HdrStarts ==
    SegStarts(evhdr.start, Toadur(evhdr.start, evhdr.stop, options.ntoa), options.ntoa)

\* --tmin is set and lies strictly between two segment starts of the header window
TminBetween ==
    /\ options.tmin # 0
    /\ options.ntoa >= 2
    /\ \E i \in 1..(options.ntoa - 1) :
          HdrStarts[i] < options.tmin /\ options.tmin < HdrStarts[i + 1]

\* C2 as stated: with --tmin between two header segment starts, fewer than N rows
\* are produced and the image extent is still the header's start and stop.
C2_RowsDroppedExtentKept ==
    (TminBetween /\ pc \in AfterImshow) =>
        /\ Len(c) < options.ntoa
        /\ extent = <<0, 2, evhdr.start, evhdr.stop>>

\* C2 as the script behaves: with --tmin between two header segment starts (and
\* below the stop), the window start becomes tmin, the N segments are laid out
\* from tmin, none is skipped, N rows are produced and the extent runs from tmin
\* to the header's stop.
C2_TminMovesWindow ==
    (TminBetween /\ options.tmin < evhdr.stop) =>
        /\ pc \notin {"filter", "window"} => MJDSTART = options.tmin /\ MJDSTOP = evhdr.stop
        /\ pc \in AfterSegments =>
              /\ Len(mjdstarts) = options.ntoa
              /\ \A i \in 1..Len(mjdstarts) : ~Skipped(i)
        /\ pc \in AfterReshape => Len(c) = options.ntoa
        /\ pc \in AfterImshow => extent = <<0, 2, options.tmin, evhdr.stop>>

C2_Witness ==
    /\ TminBetween /\ options.tmin < evhdr.stop
    /\ pc = "done"
    /\ Len(c) = options.ntoa
    /\ extent[3] # evhdr.start

\* C3: for N >= 1 and a valid scale the reshape never fails, the display matrix
\* has one row per processed segment and 2B columns, and its two halves agree.
C3_ShapeAndDuplication ==
    (options.ntoa >= 1 /\ options.scale \in ValidScales) =>
        /\ ~(pc = "failed" /\ exc = "ValueError")
        /\ pc \in AfterReshape =>
              /\ Len(c) = Cardinality(Processed(Len(mjdstarts)))
              /\ \A r \in 1..Len(c) :
                    /\ Len(c[r]) = 2 * options.nbins
                    /\ \A j \in 1..options.nbins : c[r][j] = c[r][j + options.nbins]

\* C4: an unknown --scale prints two diagnostic lines, ends the run with a
\* non-success status and produces no figure.
C4_BadScaleFails ==
    (options.scale \notin ValidScales /\ options.ntoa >= 1) =>
        /\ figure = "none"
        /\ pc = "exited" => logErrors = 2 /\ exitStatus # 0

\* C5: N < 1 is rejected with InvalidArgument before any segment is built.
C5_NtoaRejected ==
    (options.ntoa < 1) =>
        \/ pc \in {"filter", "window", "segment"}
        \/ pc = "failed" /\ exc = "InvalidArgument" /\ mjdstarts = <<>> /\ a = <<>>

\* positions in evdat of the events the energy filter keeps: mjds[j] and
\* phases[j] belong to the event evdat[Retained[j]]
Retained == Where(EnergyMask(evdat, options.emin, options.emax))

OwnWeight(j) == evdat[Retained[j]].WEIGHT

\* how many of the first n segments accumulate the filtered event j
Mult(j, n) == Cardinality({i \in Processed(n) : j \in Selected(i)})

\* sum over the accumulated events of bin b of the event's own weight
OwnSum(b, n) ==
    SumTo(LAMBDA j : IF BinOf(phases[j], options.nbins) = b
                     THEN Mult(j, n) * OwnWeight(j) ELSE 0, Len(mjds))

\* sum over the accumulated events of bin b of the square of the event's own weight
OwnSqSum(b, n) ==
    SumTo(LAMBDA j : IF BinOf(phases[j], options.nbins) = b
                     THEN Mult(j, n) * OwnWeight(j) * OwnWeight(j) ELSE 0, Len(mjds))

\* C7: the error sequence has length 2B; weighted, error[i]^2 is the sum of
\* weight^2 of the events accumulated in bin i mod B; unweighted, error[i]^2 is
\* the doubled profile value at i, the full-profile count of bin i mod B.
C7_ErrorBars ==
    (pc \in {"output", "done"}) =>
        /\ Len(pe) = 2 * options.nbins
        /\ \A i \in 1..Len(pe) :
              /\ pe[i].fn = "sqrt"
              /\ options.weights =>
                    pe[i].arg = OwnSqSum((i - 1) % options.nbins, Len(mjdstarts))
              /\ ~options.weights =>
                    /\ pe[i].arg = py[i]
                    /\ py[i] = fullprof[((i - 1) % options.nbins) + 1]

\* the arithmetic that lays out the segments incurs no rounding
ExactSegments ==
    LET d == MJDSTOP - MJDSTART
        t == d \div options.ntoa
    IN  /\ d % options.ntoa = 0
        /\ Fl(d, 1) = d
        /\ \A i \in 0..options.ntoa :
              /\ Fl(t * i, 1) = t * i
              /\ Fl(MJDSTART + t * i, 1) = MJDSTART + t * i

SegmentsApply == pc \in AfterSegments /\ options.ntoa >= 1 /\ MJDSTART < MJDSTOP

\* N equal segments tiling [MJDSTART, MJDSTOP]
Tiling ==
    /\ \A i \in 1..options.ntoa :
          (mjdstops[i] - mjdstarts[i]) * options.ntoa = MJDSTOP - MJDSTART
    /\ SumTo(LAMBDA i : mjdstops[i] - mjdstarts[i], options.ntoa) = MJDSTOP - MJDSTART
    /\ \A i \in 1..(options.ntoa - 1) :
          mjdstarts[i] < mjdstarts[i + 1] /\ mjdstops[i] = mjdstarts[i + 1]
    /\ mjdstops[options.ntoa] = MJDSTOP

\* C8 as stated: for N >= 1 and start < stop the N segments have equal duration
\* (stop-start)/N, durations summing to stop-start, increasing starts, the first
\* start at start, each stop equal to the next start and the last stop at stop.
C8_ExactTiling ==
    SegmentsApply =>
        /\ Len(mjdstarts) = options.ntoa /\ Len(mjdstops) = options.ntoa
        /\ mjdstarts[1] = MJDSTART
        /\ Tiling

\* C8 as the script behaves: N segments, the first start at start, starts
\* non-decreasing, no stop before its start; the equal durations, the contiguity
\* and the last stop at stop hold when the floating-point arithmetic is exact.
C8_TilingUpToRounding ==
    SegmentsApply =>
        /\ Len(mjdstarts) = options.ntoa /\ Len(mjdstops) = options.ntoa
        /\ mjdstarts[1] = MJDSTART
        /\ \A i \in 1..(options.ntoa - 1) : mjdstarts[i] <= mjdstarts[i + 1]
        /\ \A i \in 1..options.ntoa : mjdstarts[i] <= mjdstops[i]
        /\ ExactSegments => Tiling

C8_Witness ==
    /\ SegmentsApply /\ pc = "loop"
    /\ options.ntoa >= 3
    /\ ExactSegments /\ Tiling

\* segment i selects no event
EmptySegment(i) == Selected(i) = {}

\* C9: zero retained events, a segment without events or a zero-duration window
\* do not make an otherwise valid linear, unweighted run fail, and the rows of
\* the segments without events are all zeros.
C9_DegenerateRuns ==
    (/\ options.ntoa >= 1 /\ options.scale = "linear"
     /\ options.tmin = 0 /\ ~options.weights
     /\ pc \in AfterSegments \cup {"failed"}
     /\ \/ mjds = <<>>
        \/ MJDSTART = MJDSTOP
        \/ \E i \in 1..Len(mjdstarts) : EmptySegment(i)) =>
        /\ pc # "failed"
        /\ pc \in AfterReshape =>
              \A i \in 1..Len(mjdstarts) :
                  EmptySegment(i) => \A j \in 1..(2 * options.nbins) : c[i][j] = 0

\* C10: weighted, the weight added for a retained event is that event's own
\* weight: after each iteration every bin of the full profile is the sum of the
\* own weights of the events accumulated in it.
C10_OwnWeights ==
    (options.weights /\ pc = "loop") =>
        \A b \in 0..(options.nbins - 1) : fullprof[b + 1] = OwnSum(b, k)

====
